---- MODULE Spec2Model ----
(***************************************************************************)
(* A model of cfut (src/cfut/__init__.py): the FileWaitThread poll loop,   *)
(* ClusterExecutor.submit / _completion / shutdown, the Slurm and Condor   *)
(* cleanup hooks and SlurmExecutor.submit_array, together with the remote  *)
(* worker that writes the output artifact (src/cfut.py, _worker) and the   *)
(* scheduler adapter seen at its interface.                                *)
(*                                                                         *)
(* Threads: any caller thread runs one submit or submit_array call (a      *)
(* "call", 1..MaxCalls); one thread calls shutdown; the watcher thread     *)
(* runs FileWaitThread.run and, inside it, _completion.  Each action is    *)
(* one atomic step of one thread between two points where another thread   *)
(* or the filesystem can interfere.                                        *)
(*                                                                         *)
(* random_string() is modelled as a fresh token: call c draws the token c. *)
(* A WorkerID is <<c>> (submit) or <<c, i>> ("{base}_{i}", submit_array);  *)
(* a JobID is <<g>> (the adapter's id) or <<g, i>> ("{group}_{i}").        *)
(***************************************************************************)
EXTENDS Integers, Sequences, FiniteSets, TLC

\* ------------------------------------------------------------------ bounds
MaxCalls == 2
MaxJobs == 2
MaxArgs == 4
MaxBatchSize == 2
MaxRemovals == 1

Calls == 1..MaxCalls
Slots == 0..(MaxJobs - 1)
WIDs == {<<c>> : c \in Calls} \cup {<<c, i>> : c \in Calls, i \in Slots}
JIDs == {<<g>> : g \in Calls} \cup {<<g, i>> : g \in Calls, i \in Slots}

VARIABLES
    backend,        \* "slurm" (SlurmExecutor) or "condor" (CondorExecutor)
    keep_logs,      \* ClusterExecutor.keep_logs
    callpc,         \* per call: position in submit / submit_array
    kind,           \* per call: "submit" or "array"
    nargs,          \* per call: len(args) of submit_array
    bsize,          \* per call: batch_size
    nkw,            \* per call: len(kwargs)
    uselist,        \* per call: which list object is additional_setup_lines
    passed,         \* per call: the directives handed to _start_array
    gid,            \* per call: the id the adapter returned (0: none)
    idx,            \* per call: loop index of submit_array's registration loop
    futs,           \* per call: the futures collected so far, in order
    nextid,         \* the adapter's next job id
    default_lines,  \* the default-argument list object of submit_array
    own_lines,      \* a list object owned (and reused) by the callers
    infile,         \* input artifacts: WorkerID -> payload, or Absent
    outfile,        \* output artifacts: "absent", "partial", "ok", "err"
    capture,        \* scheduler capture files: {<<JobID, "out"|"err">>}
    wstate,         \* the remote worker of a job
    logfile,        \* CondorExecutor.logfile exists
    waiting,        \* FileWaitThread.waiting, in insertion order
    jobs,           \* ClusterExecutor.jobs: JobID -> (fut, workerid)
    fut,            \* futures: "none", "pending", "value", "error"
    outval,         \* what the worker of a job computed: fun of the args it read
    result,         \* the value a future was resolved with
    mpc,            \* the thread iterating map: its position in the generator
    mordered,       \* map's ordered argument
    mlen,           \* map's number of items
    mtaken,         \* the futures map's for loop has been handed
    yielded,        \* the values map has yielded, in order
    lock,           \* FileWaitThread.lock: "free" or the thread holding it
    jobs_lock,      \* ClusterExecutor.jobs_lock: "free" or the thread holding it
    wpc,            \* the watcher thread's position in run / _completion
    snapshot,       \* list(self.waiting) still to poll in this iteration
    cur,            \* the JobID handed to the callback
    curf,           \* the future _completion popped
    curw,           \* the workerid _completion popped
    crash,          \* the exception that ended the watcher thread
    shutdown,       \* FileWaitThread.shutdown
    sdpc,           \* the shutdown caller's position
    sdwait,         \* shutdown's wait argument
    invoked,        \* history: how often _completion was called per JobID
    handled,        \* history: the JobIDs whose _completion returned, in order
    overlap,        \* history: a submit call ran at or after shutdown's start
    removals        \* history: the input artifacts removed from outside

callvars == <<callpc, kind, nargs, bsize, nkw, uselist, passed, gid, idx, futs>>
linevars == <<default_lines, own_lines>>
fsvars == <<infile, outfile, capture, wstate, logfile>>
watchvars == <<wpc, snapshot, cur, curf, curw, crash>>
sdvars == <<shutdown, sdpc, sdwait>>
histvars == <<invoked, handled, overlap, removals>>
datavars == <<outval, result>>
mapvars == <<mpc, mordered, mlen, mtaken, yielded>>
vars == <<backend, keep_logs, datavars, mapvars, callvars, nextid, linevars, fsvars, waiting,
          jobs, fut, lock, jobs_lock, watchvars, sdvars, histvars>>

\* An input artifact that does not exist, and one holding (fun, args, kwargs).
Absent == [exists |-> FALSE, args |-> <<>>, kwargs |-> <<>>]
Payload(a, k) == [exists |-> TRUE, args |-> a, kwargs |-> k]

\* ----------------------------------------------------------------- helpers

\* The args sequence of a submit_array call of n items: n distinct items.
ArgsOf(n) == [k \in 1..n |-> k]

\* The kwargs sequence of a submit_array call: k mappings given by the caller,
\* or, when none is given, kwargs = [{} for _ in args] (an empty mapping is 0).
KwargsOf(n, k) == IF k = 0 THEN [i \in 1..n |-> 0] ELSE [i \in 1..k |-> i]

\* The lengths of kwargs tried for n items: none, matching, one too many.
KwChoices(n) == {0, n, n + 1}

Slice_DropsLast(s, lo, hi) ==
    LET top == IF hi - 1 < Len(s) THEN hi - 1 ELSE Len(s)
    IN  IF lo >= top THEN <<>> ELSE [k \in 1..(top - lo) |-> s[lo + k]]

\* args[lo:hi] of Python: items lo+1 .. hi (1-based), clipped to the sequence.
Slice(s, lo, hi) ==
    LET top == IF hi < Len(s) THEN hi ELSE Len(s)
    IN  IF lo >= top THEN <<>> ELSE [k \in 1..(top - lo) |-> s[lo + k]]

\* workerid = random_string()
WorkerId(c) == <<c>>

\* workerid = workerid_base + '_%d' % i
ArrayWorkerId(c, i) == <<c, i>>

\* The id of a single job is the adapter's id.
SingleJobId(g) == <<g>>

ArrayJobId_SlotZero(g, i) == <<g, 0>>

\* jobids = ['%d_%d' % (jobid, i) for i in range(0, num_jobs)]
ArrayJobId(g, i) == <<g, i>>

\* num_jobs = int(len(args)/batch_size)
NumJobs(n, b) == n \div b

ConfigError_NoKwargsCheck(n, b, k) == n % b # 0

\* The two raises of submit_array: mismatched kwargs, uneven batches.
ConfigError(n, b, k) == (k # 0 /\ k # n) \/ (n % b # 0)

\* The WorkerIDs a call writes input artifacts for.
CallWorkers(c) ==
    IF kind[c] = "submit" THEN {WorkerId(c)}
    ELSE IF kind[c] = "array"
         THEN {ArrayWorkerId(c, i) : i \in 0..(NumJobs(nargs[c], bsize[c]) - 1)}
         ELSE {}

\* The call a WorkerID belongs to.
CallOf(w) == w[1]

\* The id the scheduler itself gives the job that runs worker w.
SchedulerJobId(w) ==
    IF Len(w) = 1 THEN <<gid[CallOf(w)]>> ELSE <<gid[CallOf(w)], w[2]>>

\* The capture files the scheduler writes for one job.
CaptureKinds == IF backend = "condor" THEN {"out", "err"} ELSE {"out"}

\* self.waiting[filename] = value on an insertion-ordered dict.
DictPut(d, f, v) ==
    IF \E k \in 1..Len(d) : d[k].file = f
    THEN [k \in 1..Len(d) |-> IF d[k].file = f THEN [file |-> f, value |-> v] ELSE d[k]]
    ELSE Append(d, [file |-> f, value |-> v])

\* self.waiting[filename]
DictGet(d, f) == d[CHOOSE k \in 1..Len(d) : d[k].file = f].value

\* del self.waiting[filename]
DictDel(d, f) == SelectSeq(d, LAMBDA e : e.file # f)

\* list(self.waiting)
DictKeys(d) == [k \in 1..Len(d) |-> d[k].file]

\* The thread running call c, as the holder of a lock.
Caller(c) == "caller" \o ToString(c)

\* A future is resolved, with a value or with an error.
Resolved(f) == fut[f] \in {"value", "error"}

\* A submit or submit_array call is between its first step and its return.
InProgress(c) == callpc[c] \in {"reg", "reg_locked", "ins", "ins_locked"}

JobsStarted == Cardinality({w \in WIDs : wstate[w] # "none"})

\* One call begins only after the calls of lower index have (calls are
\* interchangeable: each is named by the random token it draws).
InOrder(c) == \A d \in Calls : d < c => callpc[d] # "idle"

\* -------------------------------------------------------------------- Init

Init ==
    /\ backend \in {"slurm", "condor"}
    /\ keep_logs \in BOOLEAN
    /\ (backend = "condor" => keep_logs = FALSE)
    /\ callpc = [c \in Calls |-> "idle"]
    /\ kind = [c \in Calls |-> "none"]
    /\ nargs = [c \in Calls |-> 0]
    /\ bsize = [c \in Calls |-> 1]
    /\ nkw = [c \in Calls |-> 0]
    /\ uselist = [c \in Calls |-> "none"]
    /\ passed = [c \in Calls |-> <<>>]
    /\ gid = [c \in Calls |-> 0]
    /\ idx = [c \in Calls |-> 0]
    /\ futs = [c \in Calls |-> <<>>]
    /\ nextid = 1
    /\ default_lines = <<>>
    /\ own_lines = <<>>
    /\ infile = [w \in WIDs |-> Absent]
    /\ outfile = [w \in WIDs |-> "absent"]
    /\ capture = {}
    /\ wstate = [w \in WIDs |-> "none"]
    /\ logfile = FALSE
    /\ waiting = <<>>
    /\ jobs = <<>>
    /\ fut = [f \in WIDs |-> "none"]
    /\ outval = [w \in WIDs |-> <<>>]
    /\ result = [f \in WIDs |-> <<>>]
    /\ mpc = "off"
    /\ mordered = FALSE
    /\ mlen = 0
    /\ mtaken = {}
    /\ yielded = <<>>
    /\ lock = "free"
    /\ jobs_lock = "free"
    /\ wpc = "sleep"
    /\ snapshot = <<>>
    /\ cur = <<>>
    /\ curf = <<>>
    /\ curw = <<>>
    /\ crash = "none"
    /\ shutdown = FALSE
    /\ sdpc = "idle"
    /\ sdwait = FALSE
    /\ invoked = [j \in JIDs |-> 0]
    /\ handled = <<>>
    /\ overlap = FALSE
    /\ removals = {}

\* ------------------------------------------------------ ClusterExecutor.submit

\* A submit whose _start failure is ignored: it goes on to register.
SubmitBegin_IgnoresFailure(c, ok) ==
    /\ callpc[c] = "idle"
    /\ InOrder(c)
    /\ JobsStarted < MaxJobs
    /\ kind' = [kind EXCEPT ![c] = "submit"]
    /\ infile' = [infile EXCEPT ![WorkerId(c)] = Payload(<<c>>, <<>>)]
    /\ IF ok
       THEN /\ gid' = [gid EXCEPT ![c] = nextid]
            /\ nextid' = nextid + 1
            /\ wstate' = [wstate EXCEPT ![WorkerId(c)] = "queued"]
            /\ logfile' = (logfile \/ backend = "condor")
       ELSE UNCHANGED <<gid, nextid, wstate, logfile>>
    /\ callpc' = [callpc EXCEPT ![c] = "reg"]
    /\ overlap' = (overlap \/ sdpc # "idle")
    /\ UNCHANGED <<backend, keep_logs, datavars, mapvars, nargs, bsize, nkw, uselist, passed, idx,
                   futs, linevars, outfile, capture, waiting, jobs, fut, lock,
                   jobs_lock, watchvars, sdvars, invoked, handled, removals>>

\* submit, lines 118-125: the future, the WorkerID, the input artifact, then
\* _start, which returns a fresh JobID (ok) or raises to the caller.  The
\* args of call c are (c,): every call passes an item of its own.
SubmitBegin(c, ok) ==
    /\ callpc[c] = "idle"
    /\ InOrder(c)
    /\ JobsStarted < MaxJobs
    /\ kind' = [kind EXCEPT ![c] = "submit"]
    /\ infile' = [infile EXCEPT ![WorkerId(c)] = Payload(<<c>>, <<>>)]
    /\ IF ok
       THEN /\ gid' = [gid EXCEPT ![c] = nextid]
            /\ nextid' = nextid + 1
            /\ wstate' = [wstate EXCEPT ![WorkerId(c)] = "queued"]
            /\ logfile' = (logfile \/ backend = "condor")
            /\ callpc' = [callpc EXCEPT ![c] = "reg"]
       ELSE /\ callpc' = [callpc EXCEPT ![c] = "start_error"]
            /\ UNCHANGED <<gid, nextid, wstate, logfile>>
    /\ overlap' = (overlap \/ sdpc # "idle")
    /\ UNCHANGED <<backend, keep_logs, datavars, mapvars, nargs, bsize, nkw, uselist, passed, idx,
                   futs, linevars, outfile, capture, waiting, jobs, fut, lock,
                   jobs_lock, watchvars, sdvars, invoked, handled, removals>>

\* ------------------------------------------------ SlurmExecutor.submit_array

\* The list object a call passes as additional_setup_lines.
LinesOf(which) == IF which = "default" THEN default_lines ELSE own_lines

\* submit_array, lines 170-202: the two checks, one input artifact per batch,
\* the array directive appended in place to the caller's list, _start_array.
ArrayBegin(c, n, b, k, which, ok) ==
    /\ callpc[c] = "idle"
    /\ InOrder(c)
    /\ backend = "slurm"
    /\ kind' = [kind EXCEPT ![c] = "array"]
    /\ nargs' = [nargs EXCEPT ![c] = n]
    /\ bsize' = [bsize EXCEPT ![c] = b]
    /\ nkw' = [nkw EXCEPT ![c] = k]
    /\ overlap' = (overlap \/ sdpc # "idle")
    /\ IF ConfigError(n, b, k)
       THEN /\ callpc' = [callpc EXCEPT ![c] = "cfg_error"]
            /\ UNCHANGED <<uselist, passed, gid, idx, nextid, linevars, infile,
                           wstate>>
       ELSE LET num == NumJobs(n, b)
                lines == Append(LinesOf(which), num - 1)
            IN  /\ JobsStarted + num <= MaxJobs
                /\ uselist' = [uselist EXCEPT ![c] = which]
                /\ infile' = [w \in WIDs |->
                       IF Len(w) = 2 /\ w[1] = c /\ w[2] < num
                       THEN Payload(Slice(ArgsOf(n), b * w[2], b * (w[2] + 1)),
                                    Slice(KwargsOf(n, k), b * w[2], b * (w[2] + 1)))
                       ELSE infile[w]]
                /\ IF which = "default"
                   THEN default_lines' = lines /\ UNCHANGED own_lines
                   ELSE own_lines' = lines /\ UNCHANGED default_lines
                /\ passed' = [passed EXCEPT ![c] = lines]
                /\ idx' = [idx EXCEPT ![c] = 0]
                /\ IF ok
                   THEN /\ gid' = [gid EXCEPT ![c] = nextid]
                        /\ nextid' = nextid + 1
                        /\ wstate' = [w \in WIDs |->
                               IF Len(w) = 2 /\ w[1] = c /\ w[2] < num
                               THEN "queued" ELSE wstate[w]]
                        /\ callpc' = [callpc EXCEPT ![c] =
                               IF num = 0 THEN "done" ELSE "reg"]
                   ELSE /\ callpc' = [callpc EXCEPT ![c] = "start_error"]
                        /\ UNCHANGED <<gid, nextid, wstate>>
    /\ UNCHANGED <<backend, keep_logs, datavars, mapvars, futs, outfile, capture, logfile, waiting,
                   jobs, fut, lock, jobs_lock, watchvars, sdvars, invoked, handled,
                   removals>>

\* ------------------------------------------- registration and job-table insert

\* The WorkerID and JobID of the job a call is registering.
RegWorker(c) == IF kind[c] = "submit" THEN WorkerId(c) ELSE ArrayWorkerId(c, idx[c])
RegJob(c) == IF kind[c] = "submit" THEN SingleJobId(gid[c]) ELSE ArrayJobId(gid[c], idx[c])

RegFuture_OnePerCall(c) == IF kind[c] = "submit" THEN <<c>> ELSE <<c, 0>>

\* fut = futures.Future(): the future a call makes for the job it is
\* registering, named by the call and the turn of its loop.
RegFuture(c) == IF kind[c] = "submit" THEN <<c>> ELSE <<c, idx[c]>>

\* self.wait_thread.wait(OUTFILE_FMT % workerid, jobid): the caller takes the
\* watcher's lock (with self.lock).
WaitLock(c) ==
    /\ callpc[c] = "reg"
    /\ lock = "free"
    /\ lock' = Caller(c)
    /\ callpc' = [callpc EXCEPT ![c] = "reg_locked"]
    /\ UNCHANGED <<backend, keep_logs, datavars, mapvars, kind, nargs, bsize, nkw,
                   uselist, passed, gid, idx, futs, nextid, linevars, fsvars,
                   waiting, jobs, fut, jobs_lock, watchvars, sdvars, histvars>>

\* A wait that leaves the with-block without releasing the lock.
Register_KeepsLock(c) ==
    /\ callpc[c] = "reg_locked"
    /\ waiting' = DictPut(waiting, RegWorker(c), RegJob(c))
    /\ callpc' = [callpc EXCEPT ![c] = "ins"]
    /\ UNCHANGED <<backend, keep_logs, datavars, mapvars, kind, nargs, bsize, nkw,
                   uselist, passed, gid, idx, futs, nextid, linevars, fsvars, jobs,
                   fut, lock, jobs_lock, watchvars, sdvars, histvars>>

\* A wait that does not record the file.
Register_NoEntry(c) ==
    /\ callpc[c] = "reg_locked"
    /\ lock' = "free"
    /\ callpc' = [callpc EXCEPT ![c] = "ins"]
    /\ UNCHANGED <<backend, keep_logs, datavars, mapvars, kind, nargs, bsize, nkw,
                   uselist, passed, gid, idx, futs, nextid, linevars, fsvars,
                   waiting, jobs, fut, jobs_lock, watchvars, sdvars, histvars>>

\* self.waiting[filename] = value, and the lock is released.
Register(c) ==
    /\ callpc[c] = "reg_locked"
    /\ waiting' = DictPut(waiting, RegWorker(c), RegJob(c))
    /\ lock' = "free"
    /\ callpc' = [callpc EXCEPT ![c] = "ins"]
    /\ UNCHANGED <<backend, keep_logs, datavars, mapvars, kind, nargs, bsize, nkw, uselist, passed,
                   gid, idx, futs, nextid, linevars, fsvars, jobs, fut,
                   jobs_lock, watchvars, sdvars, histvars>>

\* with self.jobs_lock: the caller takes the job-table lock.
InsertLock(c) ==
    /\ callpc[c] = "ins"
    /\ jobs_lock = "free"
    /\ jobs_lock' = Caller(c)
    /\ callpc' = [callpc EXCEPT ![c] = "ins_locked"]
    /\ UNCHANGED <<backend, keep_logs, datavars, mapvars, kind, nargs, bsize, nkw,
                   uselist, passed, gid, idx, futs, nextid, linevars, fsvars,
                   waiting, jobs, fut, lock, watchvars, sdvars, histvars>>

\* self.jobs[jobid] = (fut, workerid), and the lock is released; submit
\* returns, submit_array goes on with the next batch or returns.
Insert(c) ==
    /\ callpc[c] = "ins_locked"
    /\ jobs_lock' = "free"
    /\ jobs' = (RegJob(c) :> [fut |-> RegFuture(c), workerid |-> RegWorker(c)]) @@ jobs
    /\ fut' = [fut EXCEPT ![RegFuture(c)] = "pending"]
    /\ futs' = [futs EXCEPT ![c] = Append(@, RegFuture(c))]
    /\ IF kind[c] = "array" /\ idx[c] + 1 < NumJobs(nargs[c], bsize[c])
       THEN /\ idx' = [idx EXCEPT ![c] = idx[c] + 1]
            /\ callpc' = [callpc EXCEPT ![c] = "reg"]
       ELSE /\ callpc' = [callpc EXCEPT ![c] = "done"]
            /\ UNCHANGED idx
    /\ UNCHANGED <<backend, keep_logs, datavars, mapvars, kind, nargs, bsize, nkw, uselist, passed,
                   gid, nextid, linevars, fsvars, waiting, lock,
                   watchvars, sdvars, histvars>>

\* ------------------------------------------------- the remote worker, outside

\* What the scheduler leaves as capture files of a job: all of them, or none.
CaptureChoices == {{}, CaptureKinds}

\* _worker up to open(OUTFILE_FMT % workerid, 'w'): the job is scheduled, reads
\* its input artifact, runs the call, and creates the (still empty) output file.
\* The value of fun on given args is written as the args themselves.
WorkerOpen(w, caps) ==
    /\ wstate[w] = "queued"
    /\ caps \in CaptureChoices
    /\ wstate' = [wstate EXCEPT ![w] = "writing"]
    /\ outfile' = [outfile EXCEPT ![w] = "partial"]
    /\ outval' = [outval EXCEPT ![w] = infile[w].args]
    /\ capture' = capture \cup {<<SchedulerJobId(w), k>> : k \in caps}
    /\ UNCHANGED <<backend, keep_logs, result, mapvars, callvars, nextid, linevars, infile, logfile,
                   waiting, jobs, fut, lock, jobs_lock, watchvars, sdvars, histvars>>

\* f.write(out) and the close: the payload is (True, value) or (False, str(exc)).
WorkerWrite(w, res) ==
    /\ wstate[w] = "writing"
    /\ wstate' = [wstate EXCEPT ![w] = "exited"]
    /\ outfile' = [outfile EXCEPT ![w] = res]
    /\ UNCHANGED <<backend, keep_logs, datavars, mapvars, callvars, nextid, linevars, infile, capture,
                   logfile, waiting, jobs, fut, lock, jobs_lock, watchvars, sdvars,
                   histvars>>

\* Someone else removes an input artifact the worker has already read.
ExternalRemove(w) ==
    /\ Cardinality(removals) < MaxRemovals
    /\ wstate[w] \in {"writing", "exited"}
    /\ infile[w].exists
    /\ infile' = [infile EXCEPT ![w] = Absent]
    /\ removals' = removals \cup {w}
    /\ UNCHANGED <<backend, keep_logs, datavars, mapvars, callvars, nextid, linevars, outfile, capture,
                   wstate, logfile, waiting, jobs, fut, lock, jobs_lock, watchvars,
                   sdvars, invoked, handled, overlap>>

\* ------------------------------------------------------- FileWaitThread.run

\* An exception leaves run: the with-blocks release the locks, the thread ends.
Raise(why) ==
    /\ crash' = why
    /\ wpc' = "crashed"
    /\ lock' = "free"
    /\ jobs_lock' = IF jobs_lock = "watcher" THEN "free" ELSE jobs_lock

\* A loop that does not look at the stop flag.
WatcherWake_IgnoresShutdown ==
    /\ wpc = "sleep"
    /\ lock = "free"
    /\ wpc' = "poll"
    /\ lock' = "watcher"
    /\ snapshot' = DictKeys(waiting)
    /\ UNCHANGED <<backend, keep_logs, datavars, mapvars, callvars, nextid, linevars,
                   fsvars, waiting, jobs, fut, jobs_lock, cur, curf, curw, crash,
                   sdvars, histvars>>

\* with self.lock: if self.shutdown: return; else list(self.waiting).
WatcherWake ==
    /\ wpc = "sleep"
    /\ lock = "free"
    /\ IF shutdown
       THEN /\ wpc' = "stopped"
            /\ UNCHANGED <<lock, snapshot>>
       ELSE /\ wpc' = "poll"
            /\ lock' = "watcher"
            /\ snapshot' = DictKeys(waiting)
    /\ UNCHANGED <<backend, keep_logs, datavars, mapvars, callvars, nextid, linevars, fsvars, waiting,
                   jobs, fut, jobs_lock, cur, curf, curw, crash, sdvars, histvars>>

\* One turn of "for filename in list(self.waiting)": os.path.exists, and the
\* call of the callback with self.waiting[filename]; past the last file the
\* lock is released and the thread sleeps.
WatcherPoll ==
    /\ wpc = "poll"
    /\ IF snapshot = <<>>
       THEN /\ wpc' = "sleep"
            /\ lock' = "free"
            /\ UNCHANGED <<snapshot, cur, invoked>>
       ELSE IF outfile[Head(snapshot)] # "absent"
            THEN /\ cur' = DictGet(waiting, Head(snapshot))
                 /\ invoked' = [invoked EXCEPT ![cur'] = @ + 1]
                 /\ wpc' = "cb_lock"
                 /\ UNCHANGED <<snapshot, lock>>
            ELSE /\ snapshot' = Tail(snapshot)
                 /\ UNCHANGED <<wpc, lock, cur, invoked>>
    /\ UNCHANGED <<backend, keep_logs, datavars, mapvars, callvars, nextid, linevars, fsvars, waiting,
                   jobs, fut, jobs_lock, curf, curw, crash, sdvars, handled, overlap,
                   removals>>

\* ------------------------------------------------ ClusterExecutor._completion

\* with self.jobs_lock: the watcher takes the job-table lock.
CompletionLock ==
    /\ wpc = "cb_lock"
    /\ jobs_lock = "free"
    /\ jobs_lock' = "watcher"
    /\ wpc' = "cb_pop"
    /\ UNCHANGED <<backend, keep_logs, datavars, mapvars, callvars, nextid, linevars, fsvars, waiting,
                   jobs, fut, lock, snapshot, cur, curf, curw, crash, sdvars,
                   histvars>>

\* fut, workerid = self.jobs.pop(jobid) (KeyError when absent); notify_all
\* when the table is now empty; the job-table lock is released.
CompletionPop ==
    /\ wpc = "cb_pop"
    /\ IF cur \in DOMAIN jobs
       THEN /\ curf' = jobs[cur].fut
            /\ curw' = jobs[cur].workerid
            /\ jobs' = [j \in (DOMAIN jobs) \ {cur} |-> jobs[j]]
            /\ sdpc' = IF (DOMAIN jobs) \ {cur} = {} /\ sdpc = "waiting"
                       THEN "notified" ELSE sdpc
            /\ jobs_lock' = "free"
            /\ wpc' = "cb_read"
            /\ UNCHANGED <<lock, crash>>
       ELSE /\ Raise("KeyError")
            /\ UNCHANGED <<curf, curw, jobs, sdpc>>
    /\ UNCHANGED <<backend, keep_logs, datavars, mapvars, callvars, nextid, linevars, fsvars, waiting,
                   fut, snapshot, cur, shutdown, sdwait, histvars>>

\* open/read of the output artifact, cloudpickle.loads, and set_result or
\* set_exception; an empty payload does not decode and loads raises.
CompletionRead ==
    /\ wpc = "cb_read"
    /\ IF outfile[curw] \in {"ok", "err"}
       THEN /\ fut' = [fut EXCEPT ![curf] = IF outfile[curw] = "ok" THEN "value" ELSE "error"]
            /\ result' = [result EXCEPT ![curf] =
                              IF outfile[curw] = "ok" THEN outval[curw] ELSE @]
            /\ wpc' = "cb_unlink"
            /\ UNCHANGED <<lock, jobs_lock, crash>>
       ELSE /\ Raise(IF outfile[curw] = "partial" THEN "decode" ELSE "open")
            /\ UNCHANGED <<fut, result>>
    /\ UNCHANGED <<backend, keep_logs, outval, mapvars, callvars, nextid, linevars, fsvars, waiting,
                   jobs, snapshot, cur, curf, curw, sdvars, histvars>>

\* os.unlink(INFILE_FMT % workerid); os.unlink(OUTFILE_FMT % workerid): the
\* first raises when the input artifact is gone, and the second is not reached.
CompletionUnlink ==
    /\ wpc = "cb_unlink"
    /\ IF infile[curw].exists
       THEN /\ infile' = [infile EXCEPT ![curw] = Absent]
            /\ outfile' = [outfile EXCEPT ![curw] = "absent"]
            /\ wpc' = "cb_cleanup"
            /\ UNCHANGED <<lock, jobs_lock, crash>>
       ELSE /\ Raise("unlink")
            /\ UNCHANGED <<infile, outfile>>
    /\ UNCHANGED <<backend, keep_logs, datavars, mapvars, callvars, nextid, linevars, capture, wstate,
                   logfile, waiting, jobs, fut, snapshot, cur, curf, curw, sdvars,
                   histvars>>

\* SlurmExecutor._cleanup: nothing with keep_logs, else the unlink of the
\* capture file in try/except OSError.  It never raises.
SlurmCleanupRaises == FALSE
SlurmCleanupLeaves == IF keep_logs THEN capture ELSE capture \ {<<cur, "out">>}

\* CondorExecutor._cleanup: two bare unlinks, each raising on a missing file.
CondorCleanupRaises == <<cur, "out">> \notin capture \/ <<cur, "err">> \notin capture
CondorCleanupLeaves == capture \ {<<cur, "out">>, <<cur, "err">>}

CleanupRaises == IF backend = "slurm" THEN SlurmCleanupRaises ELSE CondorCleanupRaises
CleanupLeaves == IF backend = "slurm" THEN SlurmCleanupLeaves ELSE CondorCleanupLeaves

\* self._cleanup(jobid), the return of the callback, and back in run:
\* del self.waiting[filename] and the next turn of the loop.
CompletionCleanup ==
    /\ wpc = "cb_cleanup"
    /\ capture' = CleanupLeaves
    /\ IF CleanupRaises
       THEN /\ Raise("cleanup")
            /\ UNCHANGED <<waiting, snapshot, handled>>
       ELSE /\ waiting' = DictDel(waiting, Head(snapshot))
            /\ snapshot' = Tail(snapshot)
            /\ handled' = Append(handled, cur)
            /\ wpc' = "poll"
            /\ UNCHANGED <<lock, jobs_lock, crash>>
    /\ UNCHANGED <<backend, keep_logs, datavars, mapvars, callvars, nextid, linevars, infile, outfile,
                   wstate, logfile, jobs, fut, cur, curf, curw, sdvars, invoked, overlap,
                   removals>>

\* ------------------------------------------------- ClusterExecutor.shutdown

\* shutdown(wait) is called.
ShutdownBegin(wait) ==
    /\ sdpc = "idle"
    /\ sdwait' = wait
    /\ sdpc' = IF wait THEN "lock" ELSE "stop"
    /\ overlap' = (overlap \/ \E c \in Calls : InProgress(c))
    /\ UNCHANGED <<backend, keep_logs, datavars, mapvars, callvars, nextid, linevars, fsvars, waiting,
                   jobs, fut, lock, jobs_lock, watchvars, shutdown, invoked, handled,
                   removals>>

\* if wait: with self.jobs_lock: the caller takes the job-table lock.
ShutdownLock ==
    /\ sdpc = "lock"
    /\ jobs_lock = "free"
    /\ jobs_lock' = "shutdown"
    /\ sdpc' = "check"
    /\ UNCHANGED <<backend, keep_logs, datavars, mapvars, callvars, nextid, linevars, fsvars, waiting,
                   jobs, fut, lock, watchvars, shutdown, sdwait, histvars>>

\* A shutdown that calls stop() inside the with-block, the lock still held.
ShutdownCheck_KeepsLock ==
    /\ sdpc = "check"
    /\ jobs_lock' = IF DOMAIN jobs # {} THEN "free" ELSE jobs_lock
    /\ sdpc' = IF DOMAIN jobs # {} THEN "waiting" ELSE "stop"
    /\ UNCHANGED <<backend, keep_logs, datavars, mapvars, callvars, nextid, linevars,
                   fsvars, waiting, jobs, fut, lock, watchvars, shutdown, sdwait,
                   histvars>>

\* if self.jobs: self.jobs_empty_cond.wait(), which releases the lock and
\* blocks; with an empty table the with-block is left at once.
ShutdownCheck ==
    /\ sdpc = "check"
    /\ jobs_lock' = "free"
    /\ sdpc' = IF DOMAIN jobs # {} THEN "waiting" ELSE "stop"
    /\ UNCHANGED <<backend, keep_logs, datavars, mapvars, callvars, nextid, linevars, fsvars, waiting,
                   jobs, fut, lock, watchvars, shutdown, sdwait, histvars>>

\* The notified waiter takes the job-table lock again, inside wait().
ShutdownWake ==
    /\ sdpc = "notified"
    /\ jobs_lock = "free"
    /\ jobs_lock' = "shutdown"
    /\ sdpc' = "leave"
    /\ UNCHANGED <<backend, keep_logs, datavars, mapvars, callvars, nextid, linevars, fsvars, waiting,
                   jobs, fut, lock, watchvars, shutdown, sdwait, histvars>>

\* wait() returns and the with-block is left: the lock is released.
ShutdownLeave ==
    /\ sdpc = "leave"
    /\ jobs_lock' = "free"
    /\ sdpc' = "stop"
    /\ UNCHANGED <<backend, keep_logs, datavars, mapvars, callvars, nextid, linevars, fsvars, waiting,
                   jobs, fut, lock, watchvars, shutdown, sdwait, histvars>>

\* self.wait_thread.stop(): with self.lock, the caller takes the watcher's lock.
StopLock ==
    /\ sdpc = "stop"
    /\ lock = "free"
    /\ lock' = "shutdown"
    /\ sdpc' = "stopping"
    /\ UNCHANGED <<backend, keep_logs, datavars, mapvars, callvars, nextid, linevars, fsvars, waiting,
                   jobs, fut, jobs_lock, watchvars, shutdown, sdwait, histvars>>

\* self.shutdown = True, the lock is released and stop() returns.
ShutdownStop ==
    /\ sdpc = "stopping"
    /\ shutdown' = TRUE
    /\ lock' = "free"
    /\ sdpc' = "join"
    /\ UNCHANGED <<backend, keep_logs, datavars, mapvars, callvars, nextid, linevars, fsvars, waiting,
                   jobs, fut, jobs_lock, watchvars, sdwait, histvars>>

\* self.wait_thread.join() returns once run has ended; CondorExecutor.shutdown
\* then removes its log file.
ShutdownJoin ==
    /\ sdpc = "join"
    /\ wpc \in {"stopped", "crashed"}
    /\ sdpc' = "returned"
    /\ logfile' = (logfile /\ backend # "condor")
    /\ UNCHANGED <<backend, keep_logs, datavars, mapvars, callvars, nextid, linevars, infile, outfile,
                   capture, wstate, waiting, jobs, fut, lock, jobs_lock, watchvars,
                   shutdown, sdwait, histvars>>

\* ----------------------------------------------------------------------- map

\* futs of map: the future of each submit, in the order of the submits.
MapFuts == [k \in 1..mlen |-> futs[k][1]]

MapCandidates_AlwaysAsCompleted ==
    {MapFuts[k] : k \in 1..mlen} \ mtaken

MapCandidates_Retakes ==
    IF mordered
    THEN {MapFuts[k] : k \in {Cardinality(mtaken) + 1} \cap (1..mlen)}
    ELSE {MapFuts[k] : k \in 1..mlen}

\* for fut in (futs if ordered else futures.as_completed(futs)): the futures
\* the loop may be handed next, the next of the list or any not yet handed.
MapCandidates ==
    IF mordered
    THEN {MapFuts[k] : k \in {Cardinality(mtaken) + 1} \cap (1..mlen)}
    ELSE {MapFuts[k] : k \in 1..mlen} \ mtaken

\* The generator is started on n items: with executor.
MapBegin(ordered, n) ==
    /\ mpc = "off"
    /\ sdpc = "idle"
    /\ \A c \in Calls : callpc[c] = "idle"
    /\ mpc' = "submit"
    /\ mordered' = ordered
    /\ mlen' = n
    /\ UNCHANGED <<backend, keep_logs, datavars, mtaken, yielded, callvars, nextid,
                   linevars, fsvars, waiting, jobs, fut, lock, jobs_lock, watchvars,
                   sdvars, histvars>>

\* futs.append(executor.submit(func, arg, ...)): the submit of item c begins
\* when the submits of the items before it have returned.
MapSubmit(c, ok) ==
    /\ mpc = "submit"
    /\ c <= mlen
    /\ \A d \in 1..(c - 1) : callpc[d] = "done"
    /\ SubmitBegin(c, ok)

\* The end of the submit loop, or the exception of a submit leaving it.
MapSubmitted ==
    /\ mpc = "submit"
    /\ \/ /\ \A c \in 1..mlen : callpc[c] = "done"
          /\ mpc' = "yield"
       \/ /\ \E c \in 1..mlen : callpc[c] = "start_error"
          /\ mpc' = "raised"
    /\ UNCHANGED <<backend, keep_logs, datavars, mordered, mlen, mtaken, yielded,
                   callvars, nextid, linevars, fsvars, waiting, jobs, fut, lock,
                   jobs_lock, watchvars, sdvars, histvars>>

\* yield fut.result(): the loop is handed f, result() blocks until f is
\* resolved and returns its value or raises its exception.
MapYield(f) ==
    /\ mpc = "yield"
    /\ f \in MapCandidates
    /\ Resolved(f)
    /\ mtaken' = mtaken \cup {f}
    /\ IF fut[f] = "value"
       THEN yielded' = Append(yielded, result[f]) /\ UNCHANGED mpc
       ELSE mpc' = "raised" /\ UNCHANGED yielded
    /\ UNCHANGED <<backend, keep_logs, datavars, mordered, mlen, callvars, nextid,
                   linevars, fsvars, waiting, jobs, fut, lock, jobs_lock, watchvars,
                   sdvars, histvars>>

\* The for loop has been handed every future: the generator is exhausted.
MapFinish ==
    /\ mpc = "yield"
    /\ Cardinality(mtaken) = mlen
    /\ mpc' = "finished"
    /\ UNCHANGED <<backend, keep_logs, datavars, mordered, mlen, mtaken, yielded,
                   callvars, nextid, linevars, fsvars, waiting, jobs, fut, lock,
                   jobs_lock, watchvars, sdvars, histvars>>

\* The with-block is left, normally or by an exception: executor.__exit__
\* calls shutdown(wait=True).
MapExit ==
    /\ mpc \in {"finished", "raised"}
    /\ ShutdownBegin(TRUE)

\* ------------------------------------------------------------ specification

\* The executor at work: callers submit single jobs or one array of MaxJobs
\* one-item batches, the scheduler runs the workers, the watcher polls and
\* completes, one thread shuts the executor down.
Next ==
    \/ \E c \in Calls, ok \in BOOLEAN : SubmitBegin(c, ok)
    \/ \E c \in Calls : ArrayBegin(c, MaxJobs, 1, 0, "default", TRUE)
    \/ \E c \in Calls : WaitLock(c)
    \/ \E c \in Calls : Register(c)
    \/ \E c \in Calls : InsertLock(c)
    \/ \E c \in Calls : Insert(c)
    \/ \E w \in WIDs, caps \in SUBSET {"out", "err"} : WorkerOpen(w, caps)
    \/ \E w \in WIDs, res \in {"ok", "err"} : WorkerWrite(w, res)
    \/ \E w \in WIDs : ExternalRemove(w)
    \/ WatcherWake
    \/ WatcherPoll
    \/ CompletionLock
    \/ CompletionPop
    \/ CompletionRead
    \/ CompletionUnlink
    \/ CompletionCleanup
    \/ \E wait \in BOOLEAN : ShutdownBegin(wait)
    \/ ShutdownLock
    \/ ShutdownCheck
    \/ ShutdownWake
    \/ ShutdownLeave
    \/ StopLock
    \/ ShutdownStop
    \/ ShutdownJoin

Spec == Init /\ [][Next]_vars

\* The submission side alone, over every argument of submit_array within the
\* bounds: the callers submit while the watcher polls and the cluster has not
\* yet scheduled a job.
SubmitNext ==
    \/ \E c \in Calls, ok \in BOOLEAN : SubmitBegin(c, ok)
    \/ \E c \in Calls, n \in 0..MaxArgs, b \in 1..MaxBatchSize, ok \in BOOLEAN :
          \E k \in KwChoices(n), which \in {"default", "own"} :
             ArrayBegin(c, n, b, k, which, ok)
    \/ \E c \in Calls : WaitLock(c)
    \/ \E c \in Calls : Register(c)
    \/ \E c \in Calls : InsertLock(c)
    \/ \E c \in Calls : Insert(c)
    \/ WatcherWake
    \/ WatcherPoll

SubmitSpec == Init /\ [][SubmitNext]_vars

\* map over up to MaxCalls items, ordered or not: the submits one after the
\* other, the workers, the watcher, the yields and the shutdown at the end.
MapNext ==
    \/ \E ordered \in BOOLEAN, n \in 0..MaxCalls : MapBegin(ordered, n)
    \/ \E c \in Calls, ok \in BOOLEAN : MapSubmit(c, ok)
    \/ \E c \in Calls : WaitLock(c)
    \/ \E c \in Calls : Register(c)
    \/ \E c \in Calls : InsertLock(c)
    \/ \E c \in Calls : Insert(c)
    \/ MapSubmitted
    \/ \E w \in WIDs, caps \in SUBSET {"out", "err"} : WorkerOpen(w, caps)
    \/ \E w \in WIDs, res \in {"ok", "err"} : WorkerWrite(w, res)
    \/ \E w \in WIDs : ExternalRemove(w)
    \/ WatcherWake
    \/ WatcherPoll
    \/ CompletionLock
    \/ CompletionPop
    \/ CompletionRead
    \/ CompletionUnlink
    \/ CompletionCleanup
    \/ \E f \in WIDs : MapYield(f)
    \/ MapFinish
    \/ MapExit
    \/ ShutdownLock
    \/ ShutdownCheck
    \/ ShutdownWake
    \/ ShutdownLeave
    \/ StopLock
    \/ ShutdownStop
    \/ ShutdownJoin

MapSpec == Init /\ [][MapNext]_vars

\* The steps of one thread: a caller past the start of its call, the remote
\* workers, the watcher, the caller of shutdown.
CallerStep(c) == WaitLock(c) \/ Register(c) \/ InsertLock(c) \/ Insert(c)
WorkerStep ==
    \/ \E w \in WIDs, caps \in SUBSET {"out", "err"} : WorkerOpen(w, caps)
    \/ \E w \in WIDs, res \in {"ok", "err"} : WorkerWrite(w, res)
WatcherStep ==
    \/ WatcherWake \/ WatcherPoll \/ CompletionLock \/ CompletionPop
    \/ CompletionRead \/ CompletionUnlink \/ CompletionCleanup
ShutdownStep ==
    \/ ShutdownLock \/ ShutdownCheck \/ ShutdownWake \/ ShutdownLeave
    \/ StopLock \/ ShutdownStop \/ ShutdownJoin

\* Fair scheduling: every thread that can take a step eventually takes it (a
\* thread waiting for a lock gets it when it is free again and again), and
\* the scheduled workers run and write their output artifacts.  Nothing
\* obliges a caller to begin a call, nor anybody to remove a file.
Fairness ==
    /\ \A c \in Calls : SF_vars(CallerStep(c))
    /\ WF_vars(WorkerStep)
    /\ WF_vars(WatcherStep)
    /\ SF_vars(ShutdownStep)

\* The calls before call c have returned or raised: one thread makes them.
Sequential(c) == \A d \in 1..(c - 1) : callpc[d] \in {"done", "start_error"}

SeqSubmit(c, ok) == Sequential(c) /\ SubmitBegin(c, ok)
SeqArray(c) == Sequential(c) /\ ArrayBegin(c, MaxJobs, 1, 0, "default", TRUE)

\* The executor used by one thread, which makes its calls one after the
\* other, while another thread may shut it down; nobody else touches the
\* artifacts.
SeqNext ==
    \/ \E c \in Calls, ok \in BOOLEAN : SeqSubmit(c, ok)
    \/ \E c \in Calls : SeqArray(c)
    \/ \E c \in Calls : WaitLock(c)
    \/ \E c \in Calls : Register(c)
    \/ \E c \in Calls : InsertLock(c)
    \/ \E c \in Calls : Insert(c)
    \/ \E w \in WIDs, caps \in SUBSET {"out", "err"} : WorkerOpen(w, caps)
    \/ \E w \in WIDs, res \in {"ok", "err"} : WorkerWrite(w, res)
    \/ WatcherWake
    \/ WatcherPoll
    \/ CompletionLock
    \/ CompletionPop
    \/ CompletionRead
    \/ CompletionUnlink
    \/ CompletionCleanup
    \/ \E wait \in BOOLEAN : ShutdownBegin(wait)
    \/ ShutdownLock
    \/ ShutdownCheck
    \/ ShutdownWake
    \/ ShutdownLeave
    \/ StopLock
    \/ ShutdownStop
    \/ ShutdownJoin

FairSpec == Init /\ [][SeqNext]_vars /\ Fairness

\* ------------------------------------------------------------------ claims

\* The futures the calls that have returned handed to their callers.
ReturnedFutures == {f \in WIDs : \E c \in Calls :
                       callpc[c] = "done" /\ \E p \in 1..Len(futs[c]) : futs[c][p] = f}

\* C1: once shutdown(wait=True) has returned, no submit having run at or after
\* its start, the job table is empty and every future a submit or submit_array
\* returned is resolved, with a value or with an error.
C1_ShutdownDrains ==
    (sdpc = "returned" /\ sdwait /\ ~overlap) =>
        (DOMAIN jobs = {} /\ \A f \in ReturnedFutures : Resolved(f))

\* C2: _completion is invoked at most once with any one JobID.
C2_CompletionAtMostOnce == \A j \in JIDs : invoked[j] <= 1

\* C2 witness: two jobs of one array have both been completed, once each.
C2_Witness ==
    \E g \in Calls : /\ invoked[<<g, 0>>] = 1 /\ invoked[<<g, 1>>] = 1
                     /\ handled \in {<<<<g, 0>>, <<g, 1>>>>, <<<<g, 1>>, <<g, 0>>>>}

\* A job whose output artifact is complete and which is neither completed
\* (its future resolved, _completion invoked exactly once with its JobID) nor
\* released by a stop of the watcher.
Uncompleted(w) ==
    /\ outfile[w] \in {"ok", "err"}
    /\ ~shutdown
    /\ ~(Resolved(w) /\ invoked[SchedulerJobId(w)] = 1)

\* C3: a submitted job whose output artifact is created is, unless the watcher
\* is stopped first, eventually completed: _completion is invoked exactly once
\* with its JobID and its future is resolved.  A job stays completed once it
\* is, and its artifact stays until then, so the claim for every job is:
\* again and again, no job is left uncompleted.
C3_EventuallyCompleted == []<>(\A w \in WIDs : ~Uncompleted(w))

\* shutdown(wait=True) was called, no submit running at or after its start,
\* and it has not returned.
ShutdownPending == sdpc \notin {"idle", "returned"} /\ sdwait /\ ~overlap

\* C4: shutdown(wait=True), no submit running at or after its start, returns
\* once the output artifact of every submitted job has been created.  A
\* shutdown that has returned stays returned, so the claim is: again and
\* again, no shutdown(wait=True) is pending.
C4_ShutdownReturns == []<>(~ShutdownPending)

\* The watcher thread ended in _completion on an output artifact it could not
\* open or decode.
DecodeFailed == crash \in {"decode", "open"}

\* C5: _completion on an output artifact that cannot be read or decoded does
\* not fail: the job's future is resolved with an error and the job's input
\* and output artifacts are deleted.
C5_DecodeFailureResolvesWithError ==
    DecodeFailed =>
        /\ wpc # "crashed"
        /\ fut[curf] = "error"
        /\ ~infile[curw].exists /\ outfile[curw] = "absent"

\* C6: a failure local to one job's completion (a cleanup hook that misses its
\* capture file, an artifact that cannot be deleted) is swallowed: the watcher
\* goes on polling and the job's watch entry is removed.
C6_LocalFailureSwallowed ==
    crash \in {"cleanup", "unlink"} =>
        /\ wpc # "crashed"
        /\ \A k \in 1..Len(waiting) : waiting[k].value # cur

\* _completion is at work on the job of future f.
Completing(f) == wpc \in {"cb_read", "cb_unlink"} /\ curf = f

\* C10: once _completion is through with a job, its future resolved, neither
\* the input nor the output artifact of the job's WorkerID exists.
C10_ArtifactsGone ==
    \A c \in Calls : \A p \in 1..Len(futs[c]) :
        LET f == futs[c][p]
            w == IF kind[c] = "submit" THEN WorkerId(c) ELSE ArrayWorkerId(c, p - 1)
        IN  (Resolved(f) /\ ~Completing(f)) =>
                (~infile[w].exists /\ outfile[w] = "absent")

\* -------------------------------------------------- claims on submission

\* The entries of the watcher's set and of the job table made by call c.
WatchEntriesOf(c) == {k \in 1..Len(waiting) : waiting[k].file[1] = c}
JobEntriesOf(c) == {j \in DOMAIN jobs : jobs[j].workerid[1] = c}

\* The adapter's start, or array start, raised in call c.
StartFailed(c) == callpc[c] \notin {"idle", "cfg_error"} /\ gid[c] = 0

C7_NoEntry ==
    \A c \in Calls : StartFailed(c) =>
        /\ callpc[c] = "start_error"
        /\ futs[c] = <<>>
        /\ WatchEntriesOf(c) = {} /\ JobEntriesOf(c) = {}

C7_Step ==
    \A c \in Calls :
        (callpc[c] = "idle" /\ callpc'[c] \notin {"idle", "cfg_error"} /\ gid'[c] = 0)
            => UNCHANGED <<waiting, jobs>>

\* C7: when _start (submit) or _start_array (submit_array) fails, the caller
\* gets the failure from the call itself, which leaves the job table and the
\* watcher's set as they were: the call makes no entry in either.
C7_StartFailureLeavesNoEntry == []C7_NoEntry /\ [][C7_Step]_vars

\* C7 witness: a submit_array whose array start failed, beside a call that
\* returned and whose entries are in the watcher's set and the job table.
C7_Witness ==
    \E c, d \in Calls :
        /\ callpc[c] = "start_error" /\ kind[c] = "array"
        /\ callpc[d] = "done" /\ WatchEntriesOf(d) # {} /\ JobEntriesOf(d) # {}

\* The arguments submit_array is to refuse: len(args) not a multiple of
\* batch_size, or kwargs given with another length than args.
BadArguments(n, b, k) == (n % b # 0) \/ (k # 0 /\ k # n)

Refused(c) == kind[c] = "array" /\ BadArguments(nargs[c], bsize[c], nkw[c])

C8_NoEffect ==
    \A c \in Calls : Refused(c) =>
        /\ callpc[c] = "cfg_error"
        /\ gid[c] = 0 /\ passed[c] = <<>> /\ futs[c] = <<>>
        /\ \A w \in WIDs : w[1] = c => ~infile[w].exists
        /\ WatchEntriesOf(c) = {} /\ JobEntriesOf(c) = {}

C8_Step ==
    \A c \in Calls :
        (callpc[c] = "idle" /\ kind'[c] = "array"
            /\ BadArguments(nargs'[c], bsize'[c], nkw'[c]))
        => UNCHANGED <<infile, nextid, gid, wstate, default_lines, own_lines,
                       waiting, jobs>>

\* C8: submit_array with len(args) not divisible by batch_size, or with
\* kwargs of another length than args, fails before any effect: no input
\* artifact, no call of the adapter, the directive list untouched, no entry in
\* the watcher's set or the job table.
C8_ConfigErrorBeforeEffects == []C8_NoEffect /\ [][C8_Step]_vars

\* C8 witness: both refusals, the later one against a directive list that an
\* accepted call has already appended to.
C8_Witness ==
    /\ \E c \in Calls : callpc[c] = "cfg_error" /\ nargs[c] % bsize[c] # 0
                        /\ (own_lines # <<>> \/ default_lines # <<>>)
    /\ \E c \in Calls : callpc[c] = "cfg_error" /\ nkw[c] = nargs[c] + 1

\* Items i*b+1 .. (i+1)*b of the args of n items: batch i of size b.
ExpectedBatch(b, i) == [j \in 1..b |-> ArgsOf((i + 1) * b)[i * b + j]]

\* The args in the input artifacts of batches i, i+1, .. of call c, in order.
RECURSIVE BatchesFrom(_, _, _)
BatchesFrom(c, i, num) ==
    IF i >= num THEN <<>>
    ELSE infile[ArrayWorkerId(c, i)].args \o BatchesFrom(c, i + 1, num)

\* C9: a submit_array of n items in batches of b, b dividing n, returns n/b
\* futures in batch order; future i is in the job table under "{group}_{i}"
\* with WorkerID "{base}_{i}", and the input artifact of batch i holds items
\* i*b .. (i+1)*b - 1 in order, so that the batches in order are the args.
C9_BatchesInOrder ==
    \A c \in Calls :
        (kind[c] = "array" /\ callpc[c] = "done") =>
            LET n == nargs[c]
                b == bsize[c]
            IN  /\ n % b = 0
                /\ Len(futs[c]) * b = n
                /\ \A i \in 0..(Len(futs[c]) - 1) :
                      /\ <<gid[c], i>> \in DOMAIN jobs
                      /\ jobs[<<gid[c], i>>] = [fut |-> futs[c][i + 1], workerid |-> <<c, i>>]
                      /\ \A p \in 1..Len(futs[c]) : futs[c][p] = futs[c][i + 1] => p = i + 1
                      /\ infile[<<c, i>>].exists
                      /\ infile[<<c, i>>].args = ExpectedBatch(b, i)
                /\ BatchesFrom(c, 0, Len(futs[c])) = ArgsOf(n)

\* C9 witness: four items in two batches of two, returned.
C9_Witness ==
    \E c \in Calls : /\ kind[c] = "array" /\ callpc[c] = "done"
                     /\ nargs[c] = 4 /\ bsize[c] = 2 /\ Len(futs[c]) = 2

\* ------------------------------------------------------ claims on futures

\* A resolved future keeps its state, and set_result / set_exception are
\* called on a pending future only.
C11_Step ==
    /\ \A f \in WIDs : Resolved(f) => fut'[f] = fut[f]
    /\ (wpc = "cb_read" /\ wpc' = "cb_unlink") => fut[curf] = "pending"

\* C11: every future changes state at most once, from pending to resolved
\* with a value or with an error, and once resolved it is never set again.
C11_ResolvedAtMostOnce == [][C11_Step]_vars

\* C11 witness: one future resolved with a value and one with an error, each
\* of them some iterations ago, and the shutdown has returned.
C11_Witness ==
    /\ \E f, g \in WIDs : fut[f] = "value" /\ fut[g] = "error"
    /\ Len(handled) = 2
    /\ sdpc = "returned"

\* ---------------------------------------------------------- claims on map

\* The value of fun on the k-th item of map: submit k passes the args (k,).
MapValue(k) == <<k>>

C12_InOrder ==
    mordered => \A k \in 1..Len(yielded) : yielded[k] = MapValue(k)

C12_Step ==
    (mordered /\ yielded' # yielded) =>
        /\ Len(yielded') = Len(yielded) + 1
        /\ Resolved(MapFuts[Len(yielded')])

\* C12: map with ordered=True yields the results in submission order: the
\* k-th value yielded is the result of the k-th item, and it is yielded when
\* that item's future is resolved, also when a later job completed first.
C12_OrderedMapInOrder == []C12_InOrder /\ [][C12_Step]_vars

\* C12 witness: the job of the second item was completed before the job of
\* the first, and the ordered map has yielded both results.
C12_Witness ==
    /\ mordered /\ mlen = 2 /\ Len(yielded) = 2
    /\ handled = <<SingleJobId(gid[2]), SingleJobId(gid[1])>>

\* C13: map with ordered=False whose jobs all complete successfully yields
\* one result per item: no value is yielded twice, every value is the result
\* of an item, and the exhausted generator has yielded as many as the items.
C13_UnorderedMapYieldsEach ==
    ~mordered =>
        /\ \A i, j \in 1..Len(yielded) : yielded[i] = yielded[j] => i = j
        /\ \A i \in 1..Len(yielded) : \E k \in 1..mlen : yielded[i] = MapValue(k)
        /\ mpc = "finished" => Len(yielded) = mlen

\* C13 witness: the unordered map of two items is exhausted, having yielded
\* the result of the second before that of the first.
C13_Witness ==
    /\ ~mordered /\ mpc = "finished" /\ mlen = 2
    /\ yielded = <<MapValue(2), MapValue(1)>>

\* ------------------------------------------- claims on the two tables, locks

\* C14: when the watcher has seen a job's output artifact and calls
\* _completion with its JobID, the job table holds an entry for that JobID.
C14_EntryPresentAtCompletion ==
    wpc \in {"cb_lock", "cb_pop"} => cur \in DOMAIN jobs

\* C15, as claimed: no thread holds the job-table lock and the watcher's lock
\* at the same time.
C15_LocksNeverBoth == ~(lock # "free" /\ jobs_lock = lock)

\* C15, amended: only the watcher thread ever holds both locks, and only
\* inside _completion's "with self.jobs_lock", which it enters holding its
\* own lock; no submitter and no caller of shutdown holds both.
C15_OnlyWatcherHoldsBoth ==
    (lock # "free" /\ jobs_lock = lock) => (lock = "watcher" /\ wpc = "cb_pop")

\* C15 witness: both locks are held at once, by two threads: the watcher is
\* in an iteration while a submitter is inserting into the job table.
C15_Witness ==
    lock = "watcher" /\ \E c \in Calls : jobs_lock = Caller(c)

\* The JobIDs with a watch entry.
Watched == {waiting[k].value : k \in 1..Len(waiting)}

\* C16: for a JobID whose completion has not fired, the job table has an
\* entry exactly when the watcher has a watch entry with that JobID as value.
C16_TablesConsistent ==
    \A j \in JIDs : invoked[j] = 0 => (j \in DOMAIN jobs <=> j \in Watched)

\* C17: every submit_array that reaches the array start hands it directives
\* with exactly one array-size directive, that of slots 0..numBatches-1.
C17_OneArrayDirective ==
    \A c \in Calls :
        (kind[c] = "array" /\ callpc[c] \notin {"idle", "cfg_error"}) =>
            passed[c] = <<NumJobs(nargs[c], bsize[c]) - 1>>

\* After stop() no callback is in progress.
C18_Quiet == shutdown => wpc \in {"sleep", "stopped", "crashed"}

\* After stop() the callback is not invoked, no watch entry is removed or
\* changed, no pending future is resolved, and the watcher's only step is
\* the end of run.
C18_Step ==
    shutdown =>
        /\ invoked' = invoked
        /\ \A k \in 1..Len(waiting) : k <= Len(waiting') /\ waiting'[k] = waiting[k]
        /\ \A f \in WIDs : fut[f] = "pending" => fut'[f] = "pending"
        /\ wpc' # wpc => (wpc = "sleep" /\ wpc' = "stopped")

\* C18: once stop() has returned, the callback is never invoked again and
\* none is in progress; the watch entries not yet processed stay in the
\* registered set, their futures stay pending, and the loop ends at its
\* next iteration.
C18_StopIsFinal == []C18_Quiet /\ [][C18_Step]_vars

\* C18 witness: the loop has ended after a stop, leaving a watch entry whose
\* output artifact is complete and whose future is pending.
C18_Witness ==
    /\ shutdown /\ wpc = "stopped"
    /\ \E k \in 1..Len(waiting) :
          /\ outfile[waiting[k].file] \in {"ok", "err"}
          /\ waiting[k].value \in DOMAIN jobs
          /\ fut[jobs[waiting[k].value].fut] = "pending"

\* The threads that are requesting the watcher's lock, and the job-table lock.
LockWaiters ==
    {Caller(c) : c \in {d \in Calls : callpc[d] = "reg"}}
        \cup (IF sdpc = "stop" THEN {"shutdown"} ELSE {})
        \cup (IF wpc = "sleep" THEN {"watcher"} ELSE {})
JobsLockWaiters ==
    {Caller(c) : c \in {d \in Calls : callpc[d] = "ins"}}
        \cup (IF sdpc \in {"lock", "notified"} THEN {"shutdown"} ELSE {})
        \cup (IF wpc = "cb_lock" THEN {"watcher"} ELSE {})

\* C19: no thread requests the watcher's lock while it holds the job-table
\* lock, no thread requests a lock it holds, and never does the holder of
\* each lock wait for the other lock.
C19_NoLockCycle ==
    /\ jobs_lock \notin LockWaiters
    /\ lock \notin LockWaiters
    /\ jobs_lock \notin JobsLockWaiters
    /\ ~(lock \in JobsLockWaiters /\ jobs_lock \in LockWaiters)

\* C19 witness: the watcher, holding its lock, waits for the job-table lock
\* held by a submitter, while another submitter waits for the watcher's lock.
C19_Witness ==
    /\ lock = "watcher" /\ wpc = "cb_lock"
    /\ \E c, d \in Calls : jobs_lock = Caller(c) /\ callpc[d] = "reg"

\* C20, as claimed: every JobID in the job table has a watch entry with that
\* JobID as value, for its WorkerID's output artifact, and the input artifact
\* of that WorkerID exists.
C20_EntryWatchedInputPresent ==
    \A j \in DOMAIN jobs :
        /\ \E k \in 1..Len(waiting) :
              waiting[k].value = j /\ waiting[k].file = jobs[j].workerid
        /\ infile[jobs[j].workerid].exists

\* C20, amended: every JobID in the job table has such a watch entry, and
\* the input artifact of its WorkerID exists unless something other than the
\* executor has removed it.
C20_EntryWatchedInputKept ==
    \A j \in DOMAIN jobs :
        /\ \E k \in 1..Len(waiting) :
              waiting[k].value = j /\ waiting[k].file = jobs[j].workerid
        /\ infile[jobs[j].workerid].exists \/ jobs[j].workerid \in removals

\* C20 witness: two jobs are in the job table, the input artifact of one of
\* them removed from outside, that of the other in place.
C20_Witness ==
    \E i, j \in DOMAIN jobs :
        /\ jobs[i].workerid \in removals /\ ~infile[jobs[i].workerid].exists
        /\ infile[jobs[j].workerid].exists

====
